---- MODULE Spec2Model ----
(***************************************************************************)
(* Ray / primitive intersection and CSG evaluation of geometry.cpp.        *)
(*                                                                         *)
(* Lengths are held on an integer grid.  One grid tick is the step         *)
(* ray.dir * 1e-6 by which findAllIntersections moves a ray past a hit;    *)
(* the surfaces of the scene lie on multiples of Grid ticks, so that every *)
(* division and square root of the testers is exact on the rays of the     *)
(* model.  A double that is NaN is the value NaN; every comparison with    *)
(* it is false and every sum or product with it is NaN, as in IEEE 754.    *)
(***************************************************************************)
EXTENDS Integers, Sequences, FiniteSets, TLC

\* spacing of the lattice the scene's surfaces and the ray origins lie on
Grid == 4
\* ray origins range over -Ext*Grid .. (Ext+2)*Grid in x and -Ext*Grid .. Ext*Grid in y
Ext == 3
\* number of entries of a hit list whose contents the model records
MaxHits == 6

\* ray.dir * 1e-6 moves the origin by one tick
EPS == 1
\* temp.dist = 1e99
Huge == 1000000
\* the result of 0.0 / -0.0
NaN == 0 - 7777777
Inf == 10 * Huge
\* fixed-point 1.0 of the dimensionless results (normal, sphere u and v)
One == 64

----------------------------------------------------------------------------
(* double arithmetic *)

IsNaN(a) == a = NaN
FAdd(a, b) == IF IsNaN(a) \/ IsNaN(b) THEN NaN ELSE a + b
FSub(a, b) == IF IsNaN(a) \/ IsNaN(b) THEN NaN ELSE a - b
FMul(a, b) == IF IsNaN(a) \/ IsNaN(b) THEN NaN ELSE a * b
FNeg(a) == IF IsNaN(a) THEN NaN ELSE 0 - a
FLt(a, b) == ~IsNaN(a) /\ ~IsNaN(b) /\ a < b
FGt(a, b) == ~IsNaN(a) /\ ~IsNaN(b) /\ a > b
Abs(a) == IF a < 0 THEN 0 - a ELSE a

\* a / b for b # 0; exact on the rays of the model
Quot(a, b) == IF (a >= 0) = (b > 0) THEN Abs(a) \div Abs(b) ELSE 0 - (Abs(a) \div Abs(b))

\* a / b
FDiv(a, b) ==
    IF IsNaN(a) \/ IsNaN(b) THEN NaN
    ELSE IF b = 0 THEN (IF a = 0 THEN NaN ELSE IF a > 0 THEN Inf ELSE 0 - Inf)
    ELSE Quot(a, b)

\* a / -b : the divisor -0.0 turns the sign of an infinite quotient
FDivNeg(a, b) ==
    IF IsNaN(a) \/ IsNaN(b) THEN NaN
    ELSE IF b = 0 THEN (IF a = 0 THEN NaN ELSE IF a > 0 THEN 0 - Inf ELSE Inf)
    ELSE Quot(a, 0 - b)

\* sqrt(n), rounded down; exact on the rays of the model
FSqrt(n) ==
    IF IsNaN(n) \/ n < 0 THEN NaN
    ELSE CHOOSE r \in 0..n : r * r <= n /\ n < (r + 1) * (r + 1)

----------------------------------------------------------------------------
(* Vector *)

Zero == <<0, 0, 0>>
VAdd(a, b) == <<FAdd(a[1], b[1]), FAdd(a[2], b[2]), FAdd(a[3], b[3])>>
VSub(a, b) == <<FSub(a[1], b[1]), FSub(a[2], b[2]), FSub(a[3], b[3])>>
VScale(a, m) == <<FMul(a[1], m), FMul(a[2], m), FMul(a[3], m)>>
Dot(a, b) == FAdd(FAdd(FMul(a[1], b[1]), FMul(a[2], b[2])), FMul(a[3], b[3]))
LengthSqr(a) == Dot(a, a)

\* Vector::normalize : scale to length 1.0
Normalize(a) ==
    LET len == FSqrt(LengthSqr(a))
    IN <<FDiv(FMul(a[1], One), len), FDiv(FMul(a[2], One), len), FDiv(FMul(a[3], One), len)>>

\* project(v, a, b, c) : result[0] = v[a], result[1] = v[b], result[2] = v[c]
Project(v, a, b, c) == <<v[a + 1], v[b + 1], v[c + 1]>>

\* unproject(v, a, b, c) : result[a] = v[0], result[b] = v[1], result[c] = v[2]
Unproject(v, a, b, c) ==
    LET at(k) == IF k = a THEN v[1] ELSE IF k = b THEN v[2] ELSE v[3]
    IN <<at(0), at(1), at(2)>>

ProjectRay(ray, a, b, c) ==
    [start |-> Project(ray.start, a, b, c), dir |-> Project(ray.dir, a, b, c)]

\* atan2(y, x) in eighths of a half turn (units of PI/4), rounded towards the x axis
Atan2Oct(y, x) ==
    LET upper(yy, xx) ==
            IF xx > 0 THEN (IF yy < xx THEN 0 ELSE 1)
            ELSE IF xx = 0 THEN 2
            ELSE (IF yy > 0 - xx THEN 2 ELSE 3)
    IN IF y = 0 THEN (IF x >= 0 THEN 0 ELSE 4)
       ELSE IF y > 0 THEN upper(y, x) ELSE 0 - upper(0 - y, x)

\* asin(y / r) in units of PI/4; NaN outside [-1, 1]
AsinOct(y, r) ==
    IF IsNaN(y) \/ Abs(y) > r THEN NaN
    ELSE IF y = r THEN 2 ELSE IF y = 0 - r THEN 0 - 2
    ELSE IF y = 0 THEN 0 ELSE IF y > 0 THEN 1 ELSE 0 - 1

----------------------------------------------------------------------------
(* IntersectionData and the outcome of one call of intersect *)

Miss(data) == [found |-> FALSE, data |-> data]
Hit(data) == [found |-> TRUE, data |-> data]

\* Plane::intersect
PlaneIntersect(g, ray, data) ==
    IF (FGt(ray.start[2], g.y) /\ ray.dir[2] >= 0)
       \/ (FLt(ray.start[2], g.y) /\ ray.dir[2] <= 0)
    THEN Miss(data)
    ELSE LET yDiff == ray.dir[2]
             wantYDiff == FSub(ray.start[2], g.y)
             mult == FDivNeg(wantYDiff, yDiff)
             p == VAdd(ray.start, VScale(ray.dir, mult))
         IN IF FGt(mult, data.dist) THEN Miss(data)
            ELSE Hit([dist |-> mult, p |-> p, normal |-> <<0, One, 0>>,
                      u |-> p[1], v |-> p[3], g |-> g.id])

\* Sphere::intersect
SphereIntersect(g, ray, info) ==
    LET H == VSub(ray.start, g.center)
        A == LengthSqr(ray.dir)
        B == FMul(2, Dot(H, ray.dir))
        C == FSub(LengthSqr(H), g.R * g.R)
        Dscr == FSub(FMul(B, B), FMul(4, FMul(A, C)))
    IN IF FLt(Dscr, 0) THEN Miss(info)
       ELSE LET x1 == FDiv(FAdd(FNeg(B), FSqrt(Dscr)), FMul(2, A))
                x2 == FDiv(FSub(FNeg(B), FSqrt(Dscr)), FMul(2, A))
                sol == IF FLt(x2, 0) THEN x1 ELSE x2
                p == VAdd(ray.start, VScale(ray.dir, sol))
                n == VSub(p, g.center)
            IN IF FLt(sol, 0) THEN Miss(info)
               ELSE IF FGt(sol, info.dist) THEN Miss(info)
               ELSE Hit([dist |-> sol, p |-> p, normal |-> Normalize(n),
                         u |-> FMul(FAdd(4, Atan2Oct(n[3], n[1])), One \div 8),
                         v |-> FSub(One, FMul(FAdd(2, AsinOct(n[2], g.R)), One \div 4)),
                         g |-> g.id])

\* one pass of the loop over side = -1, +1 in Cube::intersectCubeSide
CubeSidePass(g, ray, center, data, side) ==
    LET halfSide == g.side \div 2
        yDiff == ray.dir[2]
        wantYDiff == FSub(ray.start[2], center[2] + side * halfSide)
        mult == FDivNeg(wantYDiff, yDiff)
        p == VAdd(ray.start, VScale(ray.dir, mult))
    IN IF FLt(mult, 0) THEN Miss(data)
       ELSE IF FGt(mult, data.dist) THEN Miss(data)
       ELSE IF FLt(p[1], center[1] - halfSide) \/ FGt(p[1], center[1] + halfSide)
               \/ FLt(p[3], center[3] - halfSide) \/ FGt(p[3], center[3] + halfSide)
            THEN Miss(data)
       ELSE Hit([data EXCEPT !.p = p, !.dist = mult, !.normal = <<0, side * One, 0>>,
                             !.u = FSub(p[1], center[1]), !.v = FSub(p[3], center[3])])

\* Cube::intersectCubeSide
IntersectCubeSide(g, ray, center, data) ==
    IF ray.dir[2] = 0 THEN Miss(data)
    ELSE LET lo == CubeSidePass(g, ray, center, data, 0 - 1)
             hi == CubeSidePass(g, ray, center, lo.data, 1)
         IN [found |-> lo.found \/ hi.found, data |-> hi.data]

\* the unprojection of normal and p after a pass that found a face
UnprojectHit(r, a, b, c) ==
    IF r.found
    THEN [r.data EXCEPT !.normal = Unproject(@, a, b, c), !.p = Unproject(@, a, b, c)]
    ELSE r.data

\* Cube::intersect
CubeIntersect(g, ray, data) ==
    LET ry == IntersectCubeSide(g, ray, g.center, data)
        rx == IntersectCubeSide(g, ProjectRay(ray, 1, 0, 2), Project(g.center, 1, 0, 2), ry.data)
        dx == UnprojectHit(rx, 1, 0, 2)
        rz == IntersectCubeSide(g, ProjectRay(ray, 0, 2, 1), Project(g.center, 0, 2, 1), dx)
        dz == UnprojectHit(rz, 0, 2, 1)
        found == ry.found \/ rx.found \/ rz.found
    IN [found |-> found, data |-> IF found THEN [dz EXCEPT !.g = g.id] ELSE dz]

----------------------------------------------------------------------------
(* The geometries.  A geometry is named by its identity, the value the   *)
(* code compares as a Geometry*.                                         *)

Geo(id, kind, y, center, R, side, left, right, op) ==
    [id |-> id, kind |-> kind, y |-> y, center |-> center, R |-> R, side |-> side,
     left |-> left, right |-> right, op |-> op]
PlaneAt(id, y) == Geo(id, "plane", y, Zero, 0, 0, "none", "none", "none")
SphereAt(id, c, r) == Geo(id, "sphere", 0, c, r, 0, "none", "none", "none")
CubeAt(id, c, s) == Geo(id, "cube", 0, c, 0, s, "none", "none", "none")
Csg(id, op, l, r) == Geo(id, "csg", 0, Zero, 0, 0, l, r, op)

Geoms ==
    {PlaneAt("P", 0),
     SphereAt("S1", Zero, 2 * Grid), SphereAt("S2", <<2 * Grid, 0, 0>>, 2 * Grid),
     CubeAt("K1", Zero, 2 * Grid), CubeAt("K2", <<Grid, 0, 0>>, 2 * Grid),
     CubeAt("K3", <<2 * Grid, 0, 0>>, 2 * Grid),
     SphereAt("SS", Zero, Grid), SphereAt("SB", Zero, 3 * Grid), Csg("UC", "or", "SS", "SB"),
     Csg("DC", "sub", "SS", "SB"),
     Csg("US", "or", "S1", "S2"), Csg("IS", "and", "S1", "S2"), Csg("DS", "sub", "S1", "S2"),
     Csg("UK", "or", "K1", "K2"), Csg("IK", "and", "K1", "K2"), Csg("DK", "sub", "K1", "K2"),
     Csg("UT", "or", "K1", "K3"), Csg("IT", "and", "K1", "K3"),
     Csg("PS", "or", "P", "S1"), Csg("SK", "sub", "S2", "K1"),
     Csg("NL", "sub", "UT", "S2"), Csg("NR", "sub", "K1", "US"), Csg("NU", "or", "IK", "S2")}

G(id) == CHOOSE g \in Geoms : g.id = id

Roots == {"P", "S1", "S2", "K1", "K2", "US", "IS", "DS", "UK", "IK", "DK", "UT", "IT",
          "PS", "SK", "NL", "NR", "NU", "UC", "DC"}

IsCsg(id) == G(id).kind = "csg"

\* boolOp(inLeft, inRight) of the CsgOp variants
BoolOp(op, inL, inR) ==
    IF op = "or" THEN inL \/ inR
    ELSE IF op = "and" THEN inL /\ inR
    ELSE inL /\ ~inR

\* geom->intersect(ray, data) on a primitive
PrimIntersect(id, ray, data) ==
    LET g == G(id)
    IN IF g.kind = "plane" THEN PlaneIntersect(g, ray, data)
       ELSE IF g.kind = "sphere" THEN SphereIntersect(g, ray, data)
       ELSE CubeIntersect(g, ray, data)

----------------------------------------------------------------------------
(* CsgOp *)

\* IntersectionData temp; temp.dist = 1e99;
Temp == [dist |-> Huge, p |-> Zero, normal |-> Zero, u |-> 0, v |-> 0, g |-> "none"]

\* the activation record of one call of CsgOp::intersect(ray, data).  lray and len are
\* ray and currentLength of the findAllIntersections call in progress; oddL, oddR are
\* L.size() % 2 == 1 and R.size() % 2 == 1; lost says that a list holds more than
\* MaxHits entries, of which the model records the first MaxHits
NewFrame(node, ray, data) ==
    [node |-> node, ray |-> ray, data |-> data, pc |-> "findL",
     lray |-> ray, len |-> 0, L |-> <<>>, R |-> <<>>, oddL |-> FALSE, oddR |-> FALSE,
     lost |-> FALSE, order |-> <<>>, all |-> <<>>, i |-> 0, inL |-> FALSE, inR |-> FALSE,
     found |-> FALSE, out |-> data]

\* l.push_back(temp)
PushBack(l, temp) == IF Len(l) < MaxHits THEN Append(l, temp) ELSE l

\* the body of the loop of findAllIntersections after geom->intersect has returned r
LoopBody(f, r) ==
    IF ~r.found
    THEN IF f.pc = "findL"
         THEN [f EXCEPT !.pc = "findR", !.lray = f.ray, !.len = 0]
         ELSE [f EXCEPT !.pc = "sort"]
    ELSE LET dist == FAdd(r.data.dist, f.len)
             temp == [r.data EXCEPT !.dist = dist]
             next == [f.lray EXCEPT !.start = VAdd(temp.p, VScale(f.lray.dir, EPS))]
         IN IF f.pc = "findL"
            THEN [f EXCEPT !.L = PushBack(@, temp), !.oddL = ~@, !.len = dist, !.lray = next,
                           !.lost = @ \/ Len(f.L) >= MaxHits]
            ELSE [f EXCEPT !.R = PushBack(@, temp), !.oddR = ~@, !.len = dist, !.lray = next,
                           !.lost = @ \/ Len(f.R) >= MaxHits]

\* the orders std::sort may leave the elements of cat in: every arrangement in which
\* no element is followed by one of smaller dist
RECURSIVE SortedOrders(_, _)
SortedOrders(cat, S) ==
    IF S = {} THEN {<<>>}
    ELSE LET first == {k \in S : \A j \in S : ~FLt(cat[j].dist, cat[k].dist)}
         IN UNION {{<<k>> \o t : t \in SortedOrders(cat, S \ {k})} : k \in first}

\* all = L followed by R
Concat(f) == f.L \o f.R

\* if (current.g == left) inL = !inL; else inR = !inR;
Flip(node, current, inL, inR) ==
    IF current.g = node.left THEN <<~inL, inR>> ELSE <<inL, ~inR>>

\* Accept with the record assigned before the test of the distance
AcceptAssignFirst(current, data) ==
    IF FGt(current.dist, data.dist) THEN Miss(current) ELSE Hit(current)

\* if (current.dist > data.dist) return false; data = current; return true;
Accept(current, data) ==
    IF FGt(current.dist, data.dist) THEN Miss(data) ELSE Hit(current)

\* the loop over all of CsgOp::intersect, from index i on
RECURSIVE CsgSweep(_, _, _, _, _, _)
CsgSweep(node, all, i, inL, inR, data) ==
    IF i > Len(all)
    THEN [found |-> FALSE, data |-> data, i |-> Len(all), inL |-> inL, inR |-> inR]
    ELSE LET fl == Flip(node, all[i], inL, inR)
         IN IF BoolOp(node.op, fl[1], fl[2])
            THEN LET r == Accept(all[i], data)
                 IN [found |-> r.found, data |-> r.data, i |-> i, inL |-> fl[1], inR |-> fl[2]]
            ELSE CsgSweep(node, all, i + 1, fl[1], fl[2], data)

\* InitialInside with the parity test the wrong way round (% 2 == 0)
InitialInsideEven(f) == <<~f.oddL, ~f.oddR>>

\* inL = L.size() % 2 == 1; inR = R.size() % 2 == 1;
InitialInside(f) == <<f.oddL, f.oddR>>

----------------------------------------------------------------------------
(* The caller: one ray query against one root geometry *)

\* rays along x and y through the plane z = 0, and rays along z that start below the scene
Origins(z) == {<<x * Grid, y * Grid, z * Grid>> : x \in (0 - Ext)..(Ext + 2), y \in (0 - Ext)..Ext}
Rays ==
    [start : Origins(0), dir : {<<1, 0, 0>>, <<0 - 1, 0, 0>>, <<0, 1, 0>>, <<0, 0 - 1, 0>>}]
    \cup [start : Origins(0 - Ext), dir : {<<0, 0, 1>>}]
    \cup [start : Origins(Ext), dir : {<<0, 0, 0 - 1>>}]

\* the caller's record: dist is the largest distance of interest
Entry(d) == [dist |-> d, p |-> Zero, normal |-> Zero, u |-> 0, v |-> 0, g |-> "none"]
EntryDists == {Huge, Grid, 2 * Grid}

RECURSIVE Leaves(_)
Leaves(id) == IF IsCsg(id) THEN Leaves(G(id).left) \cup Leaves(G(id).right) ELSE {id}

\* the ray meets the sphere where the square root of Sphere::intersect is exact
ExactOn(id, r) ==
    G(id).kind = "sphere" =>
        LET H == VSub(r.start, G(id).center)
            q == Dot(H, r.dir) * Dot(H, r.dir) - LengthSqr(r.dir) * (LengthSqr(H) - G(id).R * G(id).R)
        IN IF q < 0 THEN TRUE ELSE FSqrt(q) * FSqrt(q) = q

VARIABLES root, ray, entry, stack, status, result
vars == <<root, ray, entry, stack, status, result>>

Top == stack[Len(stack)]
SetTop(f) == [stack EXCEPT ![Len(stack)] = f]
Child(f) == IF f.pc = "findL" THEN G(f.node).left ELSE G(f.node).right

\* the scene is built and no query has been made
Init ==
    /\ root = "P"
    /\ ray = [start |-> Zero, dir |-> <<1, 0, 0>>]
    /\ entry = Entry(Huge)
    /\ stack = <<>>
    /\ status = "idle"
    /\ result = Miss(Entry(Huge))

\* the caller picks a root, a ray and a record
NewQuery ==
    /\ status = "idle"
    /\ \E id \in Roots, r \in Rays, d \in EntryDists :
          /\ \A leaf \in Leaves(id) : ExactOn(leaf, r)
          /\ root' = id
          /\ ray' = r
          /\ entry' = Entry(d)
          /\ result' = Miss(Entry(d))
    /\ status' = "call"
    /\ stack' = stack

\* root->intersect(ray, data) where root is a Plane, a Sphere or a Cube
CallPrimitive ==
    /\ status = "call" /\ ~IsCsg(root)
    /\ result' = PrimIntersect(root, ray, entry)
    /\ status' = "done"
    /\ UNCHANGED <<root, ray, entry, stack>>

\* root->intersect(ray, data) where root is a CsgOp
CallCsg ==
    /\ status = "call" /\ IsCsg(root)
    /\ stack' = <<NewFrame(root, ray, entry)>>
    /\ status' = "run"
    /\ UNCHANGED <<root, ray, entry, result>>

\* one pass of the loop of findAllIntersections over a primitive child
ProbePrimitive ==
    /\ status = "run" /\ Top.pc \in {"findL", "findR"} /\ ~IsCsg(Child(Top))
    /\ stack' = SetTop(LoopBody(Top, PrimIntersect(Child(Top), Top.lray, Temp)))
    /\ UNCHANGED <<root, ray, entry, status, result>>

\* geom->intersect(ray, temp) in findAllIntersections where the child is a CsgOp
ProbeCsg ==
    /\ status = "run" /\ Top.pc \in {"findL", "findR"} /\ IsCsg(Child(Top))
    /\ stack' = Append(stack, NewFrame(Child(Top), Top.lray, Temp))
    /\ UNCHANGED <<root, ray, entry, status, result>>

\* all = L; push_back every R[i]; std::sort; inL, inR from the sizes
Sort ==
    /\ status = "run" /\ Top.pc = "sort" /\ ~Top.lost
    /\ \E o \in SortedOrders(Concat(Top), 1..Len(Concat(Top))) :
          stack' = SetTop([Top EXCEPT !.pc = "sweep", !.order = o,
                                      !.all = [k \in 1..Len(o) |-> Concat(Top)[o[k]]],
                                      !.inL = InitialInside(Top)[1],
                                      !.inR = InitialInside(Top)[2]])
    /\ UNCHANGED <<root, ray, entry, status, result>>

\* the loop over all, up to the return
Sweep ==
    /\ status = "run" /\ Top.pc = "sweep"
    /\ LET r == CsgSweep(G(Top.node), Top.all, 1, Top.inL, Top.inR, Top.data)
       IN stack' = SetTop([Top EXCEPT !.pc = "ret", !.found = r.found, !.out = r.data,
                                      !.i = r.i, !.inL = r.inL, !.inR = r.inR])
    /\ UNCHANGED <<root, ray, entry, status, result>>

\* a nested CsgOp::intersect returns into the loop of findAllIntersections
ReturnToLoop ==
    /\ status = "run" /\ Len(stack) > 1 /\ Top.pc = "ret"
    /\ stack' = SubSeq(stack, 1, Len(stack) - 2) \o
                 <<LoopBody(stack[Len(stack) - 1], [found |-> Top.found, data |-> Top.out])>>
    /\ UNCHANGED <<root, ray, entry, status, result>>

\* the root CsgOp::intersect returns to the caller
ReturnToCaller ==
    /\ status = "run" /\ Len(stack) = 1 /\ Top.pc = "ret"
    /\ result' = [found |-> Top.found, data |-> Top.out]
    /\ status' = "done"
    /\ stack' = <<>>
    /\ UNCHANGED <<root, ray, entry>>

Next ==
    \/ NewQuery
    \/ CallPrimitive
    \/ CallCsg
    \/ ProbePrimitive
    \/ ProbeCsg
    \/ Sort
    \/ Sweep
    \/ ReturnToLoop
    \/ ReturnToCaller

Spec == Init /\ [][Next]_vars

----------------------------------------------------------------------------
(* The solids the geometries stand for, and the frames the claims speak of *)

TypeOK == status \in {"idle", "call", "run", "done"}

\* a hit list outgrows MaxHits only in a loop that walks a NaN ray
NoLoss == \A k \in 1..Len(stack) : stack[k].lost => IsNaN(stack[k].len)

\* pt lies strictly inside the solid
RECURSIVE Inside(_, _)
Inside(id, pt) ==
    LET g == G(id)
        d == VSub(pt, g.center)
    IN IF g.kind = "csg" THEN BoolOp(g.op, Inside(g.left, pt), Inside(g.right, pt))
       ELSE IF g.kind = "sphere" THEN LengthSqr(d) < g.R * g.R
       ELSE IF g.kind = "cube"
            THEN \A k \in 1..3 : 2 * Abs(d[k]) < g.side
       ELSE FALSE

\* pt lies on the surface of the primitive
OnSurface(id, pt) ==
    LET g == G(id)
        d == VSub(pt, g.center)
    IN IF g.kind = "sphere" THEN LengthSqr(d) = g.R * g.R
       ELSE IF g.kind = "cube"
            THEN (\A k \in 1..3 : 2 * Abs(d[k]) <= g.side) /\ (\E k \in 1..3 : 2 * Abs(d[k]) = g.side)
       ELSE pt[2] = g.y

\* pt lies on no surface of the tree
Clear(id, pt) == \A leaf \in Leaves(id) : ~OnSurface(leaf, pt)

\* the tree is built of spheres and cubes only
Closed(id) == \A leaf \in Leaves(id) : G(leaf).kind # "plane"

Frames == {stack[k] : k \in 1..Len(stack)}
Returned == {f \in Frames : f.pc = "ret"}
Odd(n) == n % 2 = 1

----------------------------------------------------------------------------
(* C1 *)

\* C1: a call of intersect that returns false leaves the caller's record as it was on
\* entry, for a primitive root and for every CsgOp call, nested ones included
C1_FalseLeavesRecord ==
    /\ (status = "done" /\ ~result.found) => result.data = entry
    /\ \A f \in Returned : ~f.found => f.out = f.data

\* a CsgOp call has returned false on a hit that satisfies boolOp but lies beyond the
\* entry dist
C1_Witness ==
    \E f \in Returned :
        /\ ~f.found /\ f.out = f.data
        /\ f.i >= 1 /\ BoolOp(G(f.node).op, f.inL, f.inR)
        /\ FGt(f.all[f.i].dist, f.data.dist)

----------------------------------------------------------------------------
(* C2 *)

\* C2: whenever intersect returns true, the dist left in the record is strictly less
\* than the dist the record held on entry
C2_StrictlyCloser ==
    /\ (status = "done" /\ result.found) => FLt(result.data.dist, entry.dist)
    /\ \A f \in Returned : f.found => FLt(f.out.dist, f.data.dist)

----------------------------------------------------------------------------
(* C3 *)

\* a pass of the loop of findAllIntersections has recorded a hit
RecordsHit ==
    /\ status = "run" /\ status' = "run"
    /\ Top.pc \in {"findL", "findR"}
    /\ Len(stack') = Len(stack) /\ Top'.pc = Top.pc
    /\ (Top'.oddL # Top.oddL \/ Top'.oddR # Top.oddR)

\* C3: the loop of findAllIntersections always reaches a probe that reports no hit:
\* no pass that records a hit leaves the loop with the ray it has just probed, which
\* the same child answers with the same hit for ever
C3_Terminates == [][RecordsHit => Top'.lray # Top.lray]_vars

----------------------------------------------------------------------------
(* C5 *)

\* the first hit of Sphere::intersect on a fresh record
Nearest(id, r) == SphereIntersect(G(id), r, Temp)

UnionOfSpheres(f) ==
    /\ G(f.node).op = "or"
    /\ G(G(f.node).left).kind = "sphere" /\ G(G(f.node).right).kind = "sphere"

Between(a, x, b) == (FLt(a, x) /\ FLt(x, b)) \/ (FLt(b, x) /\ FLt(x, a))

----------------------------------------------------------------------------
(* C6 *)

\* the k-th element of all was gathered from the left child
FromLeft(f, k) == f.order[k] <= Len(f.L)

\* C6: in the sweep every hit gathered from the left child flips inL and every hit
\* gathered from the right child flips inR
C6_FlipsOwnChild ==
    \A f \in Returned :
        LET nl == Cardinality({k \in 1..f.i : FromLeft(f, k)})
            nr == f.i - nl
        IN /\ f.inL = (f.oddL # Odd(nl))
           /\ f.inR = (f.oddR # Odd(nr))

----------------------------------------------------------------------------
(* C8 *)

\* C8: the hit CsgOp::intersect returns is one at which boolOp was false before the
\* flip and is true after it
C8_ReturnsEntry ==
    \A f \in Returned :
        f.found =>
            LET before == Flip(G(f.node), f.all[f.i], f.inL, f.inR)
            IN /\ BoolOp(G(f.node).op, f.inL, f.inR)
               /\ ~BoolOp(G(f.node).op, before[1], before[2])

----------------------------------------------------------------------------
(* C7 *)

\* C7: for a child that is a closed solid the number of recorded hits is odd exactly
\* when the ray origin is inside that child
C7_ParityIsInside ==
    \A f \in Frames :
        /\ (f.pc # "findL" /\ Closed(G(f.node).left) /\ Clear(G(f.node).left, f.ray.start))
               => (f.oddL <=> Inside(G(f.node).left, f.ray.start))
        /\ (f.pc \in {"sort", "sweep", "ret"} /\ Closed(G(f.node).right)
                /\ Clear(G(f.node).right, f.ray.start))
               => (f.oddR <=> Inside(G(f.node).right, f.ray.start))

----------------------------------------------------------------------------
(* C9 *)

Outcome(r) == [found |-> r.found, data |-> r.data]

\* the outcome of the sweep had std::sort left the merged hits in the order o
OutcomeIn(f, o) ==
    Outcome(CsgSweep(G(f.node), [k \in 1..Len(o) |-> Concat(f)[o[k]]], 1,
                     InitialInside(f)[1], InitialInside(f)[2], f.data))

\* C9: the outcome of CsgOp::intersect is the same for every order in which the sort
\* may place merged hits of equal accumulated distance
C9_TieOrderIrrelevant ==
    \A f \in Returned :
        \A o \in SortedOrders(Concat(f), 1..Len(Concat(f))) :
            OutcomeIn(f, o) = [found |-> f.found, data |-> f.out]

----------------------------------------------------------------------------
(* C10 *)

\* inL and inR after the flips of the first k elements of all
FlagsAfter(f, k) ==
    LET nl == Cardinality({j \in 1..k : f.all[j].g = G(f.node).left})
    IN <<f.oddL # Odd(nl), f.oddR # Odd(k - nl)>>

\* the hits for which boolOp is true after their flip and whose accumulated distance
\* improves the entry dist
Qualifying(f) ==
    {k \in 1..Len(f.all) :
        /\ BoolOp(G(f.node).op, FlagsAfter(f, k)[1], FlagsAfter(f, k)[2])
        /\ FLt(f.all[k].dist, f.data.dist)}

\* C10: CsgOp::intersect returns true exactly when a qualifying hit exists, and then
\* the record is a copy of the first of them; otherwise it returns false
C10_FirstQualifyingHit ==
    \A f \in Returned :
        /\ f.found <=> Qualifying(f) # {}
        /\ f.found => \E k \in Qualifying(f) :
                          /\ f.out = f.all[k]
                          /\ \A j \in Qualifying(f) : k <= j

\* the same with a hit at the entry dist counted as improving it
QualifyingOrEqual(f) ==
    {k \in 1..Len(f.all) :
        /\ BoolOp(G(f.node).op, FlagsAfter(f, k)[1], FlagsAfter(f, k)[2])
        /\ ~FGt(f.all[k].dist, f.data.dist)}

C10_UpToEquality ==
    \A f \in Returned :
        /\ f.found <=> QualifyingOrEqual(f) # {}
        /\ f.found => \E k \in QualifyingOrEqual(f) :
                          /\ f.out = f.all[k]
                          /\ \A j \in QualifyingOrEqual(f) : k <= j

----------------------------------------------------------------------------
(* C4 *)

\* the ray is followed for TMax ticks, which takes it through the whole scene
TMax == (2 * Ext + 6) * Grid
Pt(t) == VAdd(ray.start, VScale(ray.dir, t))
InA(t) == Inside(G(root).left, Pt(t))
InB(t) == Inside(G(root).right, Pt(t))

\* the ray enters A at Pt(t): it is outside A up to t and inside A at t + 1
IsEntryA(t) == InA(t + 1) /\ \A u \in 0..t : ~InA(u)
EntryA == CHOOSE t \in 0..TMax : IsEntryA(t)

\* the first point after t0 at which the ray is no longer inside the solid
ExitAfter(In(_), t0) ==
    CHOOSE t \in (t0 + 1)..(2 * TMax) : ~In(t) /\ \A u \in (t0 + 1)..(t - 1) : In(u)

\* a ray that starts outside A and B and enters A at a point inside B
SubtractionCase ==
    /\ IsCsg(root) /\ G(root).op = "sub" /\ Closed(root)
    /\ entry.dist = Huge
    /\ Clear(root, ray.start) /\ ~InA(0) /\ ~InB(0)
    /\ \E t \in 0..TMax : IsEntryA(t)
    /\ InB(EntryA)

\* C4: for A - B and a ray from outside both that enters A inside B, intersect reports
\* the point where the ray exits B while still inside A, and returns false if the ray
\* exits A before it exits B
C4_Subtraction ==
    (status = "done" /\ SubtractionCase) =>
        LET tb == ExitAfter(InB, EntryA)
            ta == ExitAfter(InA, EntryA + 1)
        IN /\ tb < ta => (result.found /\ result.data.p = Pt(tb))
           /\ ta < tb => ~result.found

\* the same when A and B are a Sphere or a Cube each
C4_OfPrimitives ==
    (IsCsg(root) /\ ~IsCsg(G(root).left) /\ ~IsCsg(G(root).right)) => C4_Subtraction
====
